---------------------------- MODULE Spec2Model ----------------------------
(* A model of copulas/bivariate/base.py: the Bivariate base class, its     *)
(* polymorphic constructor (__new__ / subclasses), parameter validation    *)
(* (check_theta / check_fit), fitting, the query operations, sampling and  *)
(* the to_dict / from_dict / save / load persistence.                      *)
(*                                                                         *)
(* The kernel subclasses (Clayton, Frank, Gumbel, Independence), scipy's   *)
(* kendalltau and the random_state decorator live outside base.py; what    *)
(* the model needs of them is stated where it is used.                     *)
EXTENDS Integers, Sequences, FiniteSets

VARIABLES
    cache,        \* Bivariate._subclasses (the class attribute; {} is the empty list)
    shadow,       \* kernel classes that own an (empty) _subclasses attribute
    obj,          \* the instance the caller holds (None when the last creation failed)
    last          \* the last call: its name, receiver class, argument and outcome

vars == <<cache, shadow, obj, last>>

-----------------------------------------------------------------------------
(* Bounds of the model. *)

\* Floats are integer-valued.  A theta lies in -MaxNum..MaxNum; a tau lies in
\* -(MaxNum + 1)..(MaxNum + 1), which reaches outside [-1, 1] on both sides.
MaxNum == 1

-----------------------------------------------------------------------------
(* Python values. *)

\* None and the floats share one shape, so that theta and tau compare freely.
None == [t |-> "None", v |-> 0]
Num(n) == [t |-> "float", v |-> n]
PosInf == [t |-> "inf", v |-> 1]
NegInf == [t |-> "inf", v |-> 0 - 1]
Str(s) == [t |-> "str", s |-> s]
Member(F) == [t |-> "CopulaTypes", m |-> F]
PyInt(n) == [t |-> "int", v |-> n]

IsNone(x) == x.t = "None"

\* a <= b on floats (the finite ones and the two infinities)
Le(a, b) ==
    IF a = NegInf \/ b = PosInf THEN TRUE
    ELSE IF a = PosInf \/ b = NegInf THEN FALSE
    ELSE a.v <= b.v

Lt(a, b) == Le(a, b) /\ a # b

\* bool(x) for None and floats: None and 0.0 are falsy
Truthy(x) == ~IsNone(x) /\ x # Num(0)

Thetas == {Num(n) : n \in (0 - MaxNum)..MaxNum}
Taus == {Num(n) : n \in (0 - MaxNum - 1)..(MaxNum + 1)}

-----------------------------------------------------------------------------
(* class CopulaTypes(Enum) and str.upper(). *)

CopulaTypes == {"CLAYTON", "FRANK", "GUMBEL", "INDEPENDENCE"}

\* member.name, as the sequence of its characters
NameOf(F) ==
    CASE F = "CLAYTON" -> <<"C", "L", "A", "Y", "T", "O", "N">>
      [] F = "FRANK" -> <<"F", "R", "A", "N", "K">>
      [] F = "GUMBEL" -> <<"G", "U", "M", "B", "E", "L">>
      [] F = "INDEPENDENCE" ->
            <<"I", "N", "D", "E", "P", "E", "N", "D", "E", "N", "C", "E">>

UpperLetters ==
    <<"A", "B", "C", "D", "E", "F", "G", "H", "I", "J", "K", "L", "M",
      "N", "O", "P", "Q", "R", "S", "T", "U", "V", "W", "X", "Y", "Z">>
LowerLetters ==
    <<"a", "b", "c", "d", "e", "f", "g", "h", "i", "j", "k", "l", "m",
      "n", "o", "p", "q", "r", "s", "t", "u", "v", "w", "x", "y", "z">>

\* the upper-case and lower-case form of each letter; any other character
\* is left as it is
ToUpper ==
    [c \in {LowerLetters[i] : i \in 1..26} |->
        UpperLetters[CHOOSE i \in 1..26 : LowerLetters[i] = c]]
ToLower ==
    [c \in {UpperLetters[i] : i \in 1..26} |->
        LowerLetters[CHOOSE i \in 1..26 : UpperLetters[i] = c]]

UpperChar(c) == IF c \in DOMAIN ToUpper THEN ToUpper[c] ELSE c

LowerChar(c) == IF c \in DOMAIN ToLower THEN ToLower[c] ELSE c

\* the string left as it was given (upper() forgotten)
MutUpper(s) == s

\* str.upper()
Upper(s) == [i \in 1..Len(s) |-> UpperChar(s[i])]

\* name in CopulaTypes.__members__
InMembers(s) == \E F \in CopulaTypes : NameOf(F) = s

\* CopulaTypes[name]
MemberNamed(s) == CHOOSE F \in CopulaTypes : NameOf(F) = s


-----------------------------------------------------------------------------
(* Classes and instances. *)

\* The base class and the kernel classes; a kernel class is named by the
\* family it sets as its copula_type.
Classes == {"Bivariate"} \cup CopulaTypes

\* A fresh instance: theta and tau are the class attributes, None.
Inst(cls) == [cls |-> cls, theta |-> None, tau |-> None]

\* Python's None, where an instance was expected
NoneObj == [cls |-> "NoneType", theta |-> None, tau |-> None]

IsInstance(o) == o.cls \in Classes
IsKernel(o) == o.cls \in CopulaTypes

\* theta_interval of a class: <<>> on the base class ([]), <<lower, upper>>
\* on a kernel class.
theta_interval(cls) ==
    CASE cls = "CLAYTON" -> <<Num(0), PosInf>>
      [] cls = "FRANK" -> <<NegInf, PosInf>>
      [] cls = "GUMBEL" -> <<Num(1), PosInf>>
      [] cls = "INDEPENDENCE" -> <<Num(0), Num(0)>>
      [] OTHER -> <<>>

\* invalid_thetas of a class
invalid_thetas(cls) ==
    CASE cls = "FRANK" -> {Num(0)}
      [] OTHER -> {}

\* theta is acceptable for the class: inside the interval, not excluded
ValidTheta(cls, th) ==
    /\ Len(theta_interval(cls)) = 2
    /\ Le(theta_interval(cls)[1], th)
    /\ Le(th, theta_interval(cls)[2])
    /\ th \notin invalid_thetas(cls)

\* check_theta(): "" when it returns, else the exception it raises.  On the
\* base class theta_interval is [] and the unpacking itself raises ValueError.
check_theta(cls, th) ==
    IF Len(theta_interval(cls)) # 2 THEN "ValueError"
    ELSE IF ~(Le(theta_interval(cls)[1], th) /\ Le(th, theta_interval(cls)[2]))
            \/ th \in invalid_thetas(cls)
    THEN "ValueError"
    ELSE ""

\* check_fit testing only whether theta is None
MutCheckFit(cls, th) ==
    IF IsNone(th) THEN "NotFittedError"
    ELSE check_theta(cls, th)

\* check_fit(): "" when it returns, else the exception it raises
check_fit(cls, th) ==
    IF ~Truthy(th) THEN "NotFittedError"
    ELSE check_theta(cls, th)

-----------------------------------------------------------------------------
(* Bivariate.subclasses and Bivariate.__new__ / __init__. *)

\* Bivariate.__subclasses__(): every family of the enumeration has its kernel
\* class, defined when the package is imported.
declared == CopulaTypes

\* cls._get_subclasses(): the kernel classes derive from Bivariate alone and
\* have no subclasses of their own.
_get_subclasses(cls) == IF cls = "Bivariate" THEN declared ELSE {}

\* the value the attribute lookup cls._subclasses finds
LookupSubclasses(cls) ==
    IF cls = "Bivariate" \/ cls \notin shadow THEN cache ELSE {}

\* cls.subclasses(): its return value, and the class attributes after it
subclasses(cls) ==
    IF LookupSubclasses(cls) = {} THEN _get_subclasses(cls)
    ELSE LookupSubclasses(cls)

CacheAfter(cls) ==
    IF LookupSubclasses(cls) = {} /\ cls = "Bivariate" THEN declared ELSE cache

ShadowAfter(cls) ==
    IF LookupSubclasses(cls) = {} /\ cls # "Bivariate"
    THEN shadow \cup {cls}
    ELSE shadow

\* __new__(cls, copula_type=ct): the exception raised ("" for none), the
\* object returned, and whether cls.subclasses() was called
New(cls, ct) ==
    IF IsNone(ct)
    THEN [exc |-> "", inst |-> Inst(cls), scanned |-> FALSE]
    ELSE IF ct.t # "CopulaTypes" /\ ~(ct.t = "str" /\ InMembers(Upper(ct.s)))
    THEN [exc |-> "ValueError", inst |-> NoneObj, scanned |-> FALSE]
    ELSE LET F == IF ct.t = "CopulaTypes" THEN ct.m
                  ELSE MemberNamed(Upper(ct.s))
         IN  [exc |-> "",
              inst |-> IF F \in subclasses(cls) THEN Inst(F) ELSE NoneObj,
              scanned |-> TRUE]

\* The spellings of a family name the model tries: upper, lower, capitalised,
\* and lower first letter with the rest upper.
Spelling(F, firstLower, tailLower) ==
    [i \in 1..Len(NameOf(F)) |->
        IF (i = 1 /\ firstLower) \/ (i > 1 /\ tailLower)
        THEN LowerChar(NameOf(F)[i])
        ELSE NameOf(F)[i]]

Spellings(F) == {Spelling(F, fl, tl) : fl \in BOOLEAN, tl \in BOOLEAN}

\* Values that name no family: unknown strings, and the enum's integer value
\* (which is not a member).
UnknownArgs ==
    {Str(<<"g", "a", "u", "s", "s">>), Str(<<"C", "L", "A", "Y", "T", "O">>),
     Str(<<>>), PyInt(0)}

FamilyArgs(F) == {Member(F)} \cup {Str(s) : s \in Spellings(F)}

Members == {Member(F) : F \in CopulaTypes}

\* what a caller passes to the Bivariate entry point as its copula_type
CtorArgs == (UNION {FamilyArgs(F) : F \in CopulaTypes}) \cup UnknownArgs

\* The kernel classes the caller also constructs directly.
DirectClasses == {"CLAYTON"}

NoArg == None

Call(op, cls, form, arg, exc, out, drew) ==
    [op |-> op, cls |-> cls, form |-> form, arg |-> arg, exc |-> exc,
     out |-> out, drew |-> drew]

\* cls(x) or cls(copula_type=x): __new__, then __init__ (which only stores
\* random_seed) when the object returned is an instance of cls.  The caller
\* holds what the call returned, and nothing when it raised.
Construct(cls, form, x) ==
    LET ct == IF form = "keyword" THEN x ELSE None
        r == New(cls, ct)
    IN  /\ cache' = (IF r.scanned THEN CacheAfter(cls) ELSE cache)
        /\ shadow' = (IF r.scanned THEN ShadowAfter(cls) ELSE shadow)
        /\ obj' = r.inst
        /\ last' = Call("new", cls, form, x, r.exc, NoArg, FALSE)

-----------------------------------------------------------------------------
(* fit. *)

\* stats.kendalltau(U, V)[0] over the observations: a value of [-1, 1]
KendallTaus == {Num(0 - 1), Num(0), Num(1)}

\* compute_theta() of a class, as the set of its outcomes: the base class
\* raises NotImplementedError; Independence maps any tau to 0; the relation of
\* the other kernels is not part of base.py and may yield any theta.
compute_theta(cls, tau) ==
    IF cls = "Bivariate" THEN {[exc |-> "NotImplementedError", th |-> None]}
    ELSE IF cls = "INDEPENDENCE" THEN {[exc |-> "", th |-> Num(0)]}
    ELSE {[exc |-> "", th |-> th] : th \in Thetas}

\* _compute_theta(): the instance after it, and the exception it raises
_compute_theta(o, c) ==
    IF c.exc # "" THEN [o |-> o, exc |-> c.exc]
    ELSE [o |-> [o EXCEPT !.theta = c.th], exc |-> check_theta(o.cls, c.th)]

\* fit(X): tau is assigned first, then _compute_theta runs
Fit(t) ==
    /\ IsInstance(obj)
    /\ \E c \in compute_theta(obj.cls, t) :
          LET r == _compute_theta([obj EXCEPT !.tau = t], c)
          IN  /\ obj' = r.o
              /\ last' = Call("fit", obj.cls, "-", t, r.exc, NoArg, FALSE)
    /\ UNCHANGED <<cache, shadow>>

-----------------------------------------------------------------------------
(* The query operations and sample. *)

AbstractOps ==
    {"probability_density", "pdf", "cumulative_distribution", "cdf",
     "percent_point", "ppf", "partial_derivative"}

QueryOps == AbstractOps \cup {"partial_derivative_scalar"}

\* One of the abstract operations (or its shortcut, which calls it): on the
\* base class it raises NotImplementedError; a kernel's override requires the
\* model to be fit and then evaluates its closed form.
KernelOp(o) ==
    IF o.cls = "Bivariate" THEN "NotImplementedError"
    ELSE check_fit(o.cls, o.theta)

\* partial_derivative_scalar(U, V, y): check_fit, then partial_derivative
partial_derivative_scalar(o) ==
    IF check_fit(o.cls, o.theta) # "" THEN check_fit(o.cls, o.theta)
    ELSE KernelOp(o)

Query(q) ==
    /\ IsInstance(obj)
    /\ last' = Call(q, obj.cls, "-", NoArg,
                    IF q = "partial_derivative_scalar"
                    THEN partial_derivative_scalar(obj) ELSE KernelOp(obj),
                    NoArg, FALSE)
    /\ UNCHANGED <<cache, shadow, obj>>

\* self.tau > 1 or self.tau < -1 with tau None: Python 3 raises TypeError;
\* Python 2 orders None below every number, so the test holds and sample
\* raises its ValueError.
NoneCompare == {"TypeError", "ValueError"}

\* sample without its test of tau
MutSample(o) ==
    IF IsNone(o.tau) THEN {[exc |-> e, drew |-> FALSE] : e \in NoneCompare}
    ELSE {[exc |-> KernelOp(o), drew |-> TRUE]}

\* sample(n_samples): the exception raised ("" for none) and whether
\* np.random.uniform was called
sample(o) ==
    IF IsNone(o.tau) THEN {[exc |-> e, drew |-> FALSE] : e \in NoneCompare}
    ELSE IF Lt(Num(1), o.tau) \/ Lt(o.tau, Num(0 - 1))
    THEN {[exc |-> "ValueError", drew |-> FALSE]}
    ELSE {[exc |-> KernelOp(o), drew |-> TRUE]}

Sample ==
    /\ IsInstance(obj)
    /\ \E r \in sample(obj) :
          last' = Call("sample", obj.cls, "-", NoArg, r.exc, NoArg, r.drew)
    /\ UNCHANGED <<cache, shadow, obj>>

-----------------------------------------------------------------------------
(* Persistence: to_dict / from_dict / save / load. *)

Dict(ct, th, tau) == [copula_type |-> ct, theta |-> th, tau |-> tau]

\* to_dict with theta and tau stored under each other's key
Mut_to_dict(o) ==
    IF o.cls = "Bivariate" THEN [exc |-> "AttributeError", out |-> NoArg]
    ELSE [exc |-> "", out |-> Dict(Str(NameOf(o.cls)), o.tau, o.theta)]

\* to_dict(): self.copula_type is None on the base class, so .name raises
to_dict(o) ==
    IF o.cls = "Bivariate" THEN [exc |-> "AttributeError", out |-> NoArg]
    ELSE [exc |-> "", out |-> Dict(Str(NameOf(o.cls)), o.theta, o.tau)]

\* from_dict(copula_dict): cls(copula_type=...), then theta and tau are
\* assigned from the record; assigning on None raises AttributeError
from_dict(cls, d) ==
    LET r == New(cls, d.copula_type)
    IN  IF r.exc # "" THEN [exc |-> r.exc, inst |-> NoneObj]
        ELSE IF r.inst = NoneObj THEN [exc |-> "AttributeError", inst |-> NoneObj]
        ELSE [exc |-> "",
              inst |-> [r.inst EXCEPT !.theta = d.theta, !.tau = d.tau]]

ToDict ==
    /\ IsInstance(obj)
    /\ last' = Call("to_dict", obj.cls, "-", NoArg, to_dict(obj).exc,
                    to_dict(obj).out, FALSE)
    /\ UNCHANGED <<cache, shadow, obj>>

\* save(filename): to_dict, then json.dump of the record to the file
Save ==
    /\ IsInstance(obj)
    /\ last' = Call("save", obj.cls, "-", NoArg, to_dict(obj).exc,
                    to_dict(obj).out, FALSE)
    /\ UNCHANGED <<cache, shadow, obj>>

\* Records written or edited by hand.
HandRecords ==
    {Dict(ct, th, tau) :
        ct \in {Str(NameOf(F)) : F \in CopulaTypes}
               \cup {Str(<<"g", "a", "u", "s", "s">>)},
        th \in Thetas \cup {None},
        tau \in {None, Num(0), Num(MaxNum + 1), Num(0 - MaxNum - 1)}}

\* The records a caller can pass on: hand-made ones, and the one the last
\* to_dict (or save, through the file) produced.
Records(ops) ==
    HandRecords \cup
        (IF last.op \in ops /\ last.exc = "" THEN {last.out} ELSE {})

FromDict(cls, d) ==
    LET r == from_dict(cls, d)
        n == New(cls, d.copula_type)
    IN  /\ cache' = (IF n.scanned THEN CacheAfter(cls) ELSE cache)
        /\ shadow' = (IF n.scanned THEN ShadowAfter(cls) ELSE shadow)
        /\ obj' = r.inst
        /\ last' = Call("from_dict", cls, "-", d, r.exc, NoArg, FALSE)

\* load(copula_path): json.load of the file, then from_dict
Load(cls, d) ==
    LET r == from_dict(cls, d)
        n == New(cls, d.copula_type)
    IN  /\ cache' = (IF n.scanned THEN CacheAfter(cls) ELSE cache)
        /\ shadow' = (IF n.scanned THEN ShadowAfter(cls) ELSE shadow)
        /\ obj' = r.inst
        /\ last' = Call("load", cls, "-", d, r.exc, NoArg, FALSE)

-----------------------------------------------------------------------------

Init ==
    /\ cache = {}
    /\ shadow = {}
    /\ obj = NoneObj
    /\ last = Call("import", "Bivariate", "-", NoArg, "", NoArg, FALSE)

Next ==
    \/ \E x \in CtorArgs : Construct("Bivariate", "keyword", x)
    \/ \E x \in Members : Construct("Bivariate", "positional", x)
    \/ \E cls \in DirectClasses, x \in Members \cup {None} :
          Construct(cls, "keyword", x)
    \/ \E t \in KendallTaus : Fit(t)
    \/ \E q \in QueryOps : Query(q)
    \/ Sample
    \/ ToDict
    \/ Save
    \/ \E cls \in {"Bivariate"} \cup DirectClasses,
          d \in Records({"to_dict"}) : FromDict(cls, d)
    \/ \E d \in Records({"save"}) : Load("Bivariate", d)

Spec == Init /\ [][Next]_vars

-----------------------------------------------------------------------------
(* Vocabulary of the properties. *)

\* s spells the name of F in some mix of upper and lower case
IsSpellingOf(s, F) ==
    /\ Len(s) = Len(NameOf(F))
    /\ \A i \in 1..Len(s) : s[i] \in {NameOf(F)[i], LowerChar(NameOf(F)[i])}

\* the value x identifies family F: the member itself, or a spelling of its name
Names(x, F) ==
    \/ x.t = "CopulaTypes" /\ x.m = F
    \/ x.t = "str" /\ IsSpellingOf(x.s, F)

InRange(tau) == Le(Num(0 - 1), tau) /\ Le(tau, Num(1))

\* the last call was cls(copula_type=x)
KeywordNew == last.op = "new" /\ last.form = "keyword"

-----------------------------------------------------------------------------
(* C1: Bivariate(copula_type=x), for x a member F of the enumeration or any *)
(* upper-, lower- or mixed-case spelling of F's name, with F's kernel       *)
(* registered, raises nothing and returns a new instance of F's kernel      *)
(* class whose theta and tau are unset.                                     *)
C1_FactoryReturnsKernel ==
    \A F \in CopulaTypes :
        (/\ KeywordNew
         /\ last.cls = "Bivariate"
         /\ F \in subclasses("Bivariate")
         /\ Names(last.arg, F))
        => (/\ last.exc = ""
            /\ obj.cls = F
            /\ IsNone(obj.theta)
            /\ IsNone(obj.tau))

\* Bivariate(copula_type='Frank') returned a Frank instance
C1_Witness ==
    /\ KeywordNew
    /\ last.cls = "Bivariate"
    /\ last.arg.t = "str"
    /\ last.arg.s = <<"F", "r", "a", "n", "k">>
    /\ obj = Inst("FRANK")

(* C2: a keyword construction whose copula_type matches no kernel registered *)
(* for the class (an unknown name, a value that is neither a string nor a    *)
(* member, or a member without a registered subclass) raises ValueError and  *)
(* returns nothing.                                                          *)
C2_UnmatchedFamilyRaises ==
    (/\ KeywordNew
     /\ ~IsNone(last.arg)
     /\ ~\E F \in subclasses(last.cls) : Names(last.arg, F))
    => (last.exc = "ValueError" /\ obj = NoneObj)

(* C3: fit on a kernel-bound model is atomic: it either returns with theta   *)
(* and tau set and theta valid for the family, or raises ValueError and      *)
(* leaves theta and tau as they were before the call.                        *)
C3_FitAtomic ==
    [][(last'.op = "fit" /\ IsKernel(obj))
        => IF last'.exc = ""
           THEN /\ ~IsNone(obj'.theta)
                /\ ~IsNone(obj'.tau)
                /\ ValidTheta(obj'.cls, obj'.theta)
           ELSE /\ last'.exc = "ValueError"
                /\ obj'.theta = obj.theta
                /\ obj'.tau = obj.tau]_vars

(* C4: in every reachable state, a kernel-bound model whose theta is set has *)
(* theta inside its family's theta_interval and outside its invalid_thetas.  *)
C4_ThetaAlwaysValid ==
    (IsKernel(obj) /\ ~IsNone(obj.theta)) => ValidTheta(obj.cls, obj.theta)

(* C5: from_dict and load reject every record of a registered family whose   *)
(* theta lies outside the family's theta_interval or in its invalid_thetas:  *)
(* the call raises ValueError and returns no model.                          *)
C5_FromDictValidates ==
    \A F \in CopulaTypes :
        (/\ last.op \in {"from_dict", "load"}
         /\ F \in subclasses(last.cls)
         /\ Names(last.arg.copula_type, F)
         /\ ~IsNone(last.arg.theta)
         /\ ~ValidTheta(F, last.arg.theta))
        => (last.exc = "ValueError" /\ obj = NoneObj)

(* C6: for a kernel-bound model m with theta and tau set,                    *)
(* Bivariate.from_dict(to_dict(m)) raises nothing and returns a model of m's *)
(* class whose theta and tau equal m's; and to_dict leaves m unchanged.      *)
C6_RoundTrip ==
    [][/\ (/\ last'.op = "from_dict"
           /\ last'.cls = "Bivariate"
           /\ IsKernel(obj)
           /\ ~IsNone(obj.theta)
           /\ ~IsNone(obj.tau)
           /\ last'.arg = Dict(Str(NameOf(obj.cls)), obj.theta, obj.tau)
           /\ last.op = "to_dict"
           /\ last.out = last'.arg)
          => (/\ last'.exc = ""
              /\ obj'.cls = obj.cls
              /\ obj'.theta = obj.theta
              /\ obj'.tau = obj.tau)
       /\ (last'.op = "to_dict" /\ IsKernel(obj))
          => (/\ obj' = obj
              /\ last'.exc = ""
              /\ last'.out = Dict(Str(NameOf(obj.cls)), obj.theta, obj.tau))]_vars

\* a model fit to tau = 1 and theta = -1 came back from its own record
C6_Witness ==
    /\ last.op = "from_dict"
    /\ last.cls = "Bivariate"
    /\ last.exc = ""
    /\ last.arg = Dict(Str(NameOf("FRANK")), Num(0 - 1), Num(1))
    /\ obj = [cls |-> "FRANK", theta |-> Num(0 - 1), tau |-> Num(1)]

(* C7: on a model whose theta is not set, every query operation raises       *)
(* NotFittedError.                                                           *)
C7_UnfitQueryRaisesNotFitted ==
    (last.op \in QueryOps /\ IsInstance(obj) /\ IsNone(obj.theta))
    => last.exc = "NotFittedError"

(* C8, as stated: whenever theta or tau is unset, or tau lies outside        *)
(* [-1, 1], sample raises ValueError before drawing any random number.       *)
C8_SampleRequiresFit ==
    (/\ last.op = "sample"
     /\ IsKernel(obj)
     /\ (IsNone(obj.theta) \/ IsNone(obj.tau) \/ ~InRange(obj.tau)))
    => (last.exc = "ValueError" /\ ~last.drew)

(* C8, amended: whenever tau is set and lies outside [-1, 1], sample raises  *)
(* ValueError before drawing any random number, whatever theta is.           *)
C8_SampleRejectsTauOutOfRange ==
    (/\ last.op = "sample"
     /\ IsInstance(obj)
     /\ ~IsNone(obj.tau)
     /\ ~InRange(obj.tau))
    => (last.exc = "ValueError" /\ ~last.drew)

\* sample was called on a restored model whose tau is above 1
C8_Witness ==
    /\ last.op = "sample"
    /\ IsKernel(obj)
    /\ obj.tau = Num(MaxNum + 1)
    /\ last.exc = "ValueError"

(* C9: Bivariate(F), the family given as the first positional argument,      *)
(* returns an instance of F's kernel class, as Bivariate(copula_type=F) does.*)
C9_PositionalBindsKernel ==
    (/\ last.op = "new"
     /\ last.cls = "Bivariate"
     /\ last.form = "positional"
     /\ last.arg.t = "CopulaTypes")
    => obj.cls = last.arg.m

(* C11: check_fit, as partial_derivative_scalar runs it first, raises       *)
(* NotFittedError exactly when theta is None or equal to 0, whatever tau and *)
(* the class are; for a non-zero theta it goes on to check_theta, which      *)
(* raises ValueError exactly when theta is not valid for the class.  So a    *)
(* model whose theta is 0 is reported as not fitted.                         *)
C11_ZeroThetaIsNotFitted ==
    (last.op = "partial_derivative_scalar" /\ IsInstance(obj))
    => /\ (last.exc = "NotFittedError")
            <=> (IsNone(obj.theta) \/ obj.theta = Num(0))
       /\ (~IsNone(obj.theta) /\ obj.theta # Num(0))
            => ((last.exc = "ValueError") <=> ~ValidTheta(obj.cls, obj.theta))

\* an Independence model that fit gave theta = 0 (and tau = 1) is reported
\* as not fitted
C11_Witness ==
    /\ last.op = "partial_derivative_scalar"
    /\ obj = [cls |-> "INDEPENDENCE", theta |-> Num(0), tau |-> Num(1)]
    /\ last.exc = "NotFittedError"

=============================================================================
